---------------------------- MODULE Spec2Model ----------------------------
(***************************************************************************)
(* Accountability bot (src/main.py): member store, check-in log, settings, *)
(* the user_jobs registry and the scheduler's job list, driven by the      *)
(* slash commands, the ready event, inbound messages, trigger fires and    *)
(* process restart.  Spec runs whole handlers one after the other;         *)
(* SpecEndToEnd keeps the order of the handlers; SpecConcurrent suspends   *)
(* the commands at the await of their reply.                               *)
(*                                                                         *)
(* Text that the code inspects character by character (times, cadence     *)
(* modes, day names, message content, channel ids) is a sequence of       *)
(* one-character strings.  Zone names are opaque keys of the zone          *)
(* database.                                                               *)
(***************************************************************************)
EXTENDS Integers, Sequences, FiniteSets, TLC

VARIABLES
    DEFAULT_TZ,          \* line 18: os.getenv("DEFAULT_TZ", "America/Chicago")
    BULLETIN_CHANNEL_ID, \* lines 20, 177-178: cached bulletin channel id
    members,             \* table members: user_id -> row
    checkins,            \* table checkins, in insertion (id) order
    settings,            \* table settings: key -> value
    user_jobs,           \* line 192: dict user_id -> job id
    jobs,                \* the scheduler's jobs (pending list before start, job store after)
    running,             \* scheduler.running
    last,                \* the handler that ran last and what it answered
    steps,               \* handlers run since the database was created
    trail,               \* the handlers run so far, in order (kept by SpecEndToEnd)
    inflight             \* commands suspended at the await of their reply (SpecConcurrent)

vars == <<DEFAULT_TZ, BULLETIN_CHANNEL_ID, members, checkins, settings,
          user_jobs, jobs, running, last, steps, trail, inflight>>

-----------------------------------------------------------------------------
(* Bounds and input alphabets *)

\* rows the check-in log may hold
MaxCheckins == 2

\* handler runs (commands, events, restarts) in one behaviour
MaxSteps == 4

Users == {1, 2}

\* keys the zone database resolves (ZoneInfo(key) succeeds)
ValidZones == {"America/Chicago", "Europe/London"}
\* values the environment may give DEFAULT_TZ
DefaultZones == {"America/Chicago", "Bad/Zone"}
\* values a caller may pass to settimezone
ZoneInputs == {"Europe/London", "Mars/Phobos"}

None == <<"<None>">>

T0800 == <<"0", "8", ":", "0", "0">>
T2105 == <<"2", "1", ":", "0", "5">>
T2400 == <<"2", "4", ":", "0", "0">>
TimeInputs == {T2105, T2400}

daily == <<"d", "a", "i", "l", "y">>
weekly == <<"w", "e", "e", "k", "l", "y">>
ModeInputs == {daily, <<" ", "W", "e", "e", "k", "l", "y">>, <<"m", "o", "n", "t", "h", "l", "y">>}

DayInputs == {<<"F", "r", "i", "d", "a", "y">>, <<"x", "y", "z">>}

\* inputs that are not a 24-hour HH:MM time, a mode or a day name
InvalidTimes == {T2400}
InvalidModes == {<<"m", "o", "n", "t", "h", "l", "y">>}
InvalidDays == {<<"x", "y", "z">>}

ContentInputs == {<<" ", "o", "k", " ">>, <<" ">>}

ChannelInputs == {<<"5", "5">>}

-----------------------------------------------------------------------------
(* Text helpers: str.strip, str.lower, str.split, int *)

Digits == {"0", "1", "2", "3", "4", "5", "6", "7", "8", "9"}

DigitVal(c) ==
    CASE c = "0" -> 0 [] c = "1" -> 1 [] c = "2" -> 2 [] c = "3" -> 3
      [] c = "4" -> 4 [] c = "5" -> 5 [] c = "6" -> 6 [] c = "7" -> 7
      [] c = "8" -> 8 [] c = "9" -> 9

LowerChar(c) ==
    CASE c = "A" -> "a" [] c = "D" -> "d" [] c = "E" -> "e" [] c = "F" -> "f"
      [] c = "I" -> "i" [] c = "K" -> "k" [] c = "L" -> "l" [] c = "M" -> "m"
      [] c = "N" -> "n" [] c = "O" -> "o" [] c = "R" -> "r" [] c = "W" -> "w"
      [] c = "Y" -> "y"
      [] OTHER -> c

Lower(s) == [i \in 1..Len(s) |-> LowerChar(s[i])]

RECURSIVE LStrip(_)
LStrip(s) == IF s # <<>> /\ Head(s) = " " THEN LStrip(Tail(s)) ELSE s

RECURSIVE RStrip(_)
RStrip(s) ==
    IF s # <<>> /\ s[Len(s)] = " " THEN RStrip(SubSeq(s, 1, Len(s) - 1)) ELSE s

Strip(s) == RStrip(LStrip(s))

\* s.split(sep): the pieces between the separators, empty pieces kept
RECURSIVE SplitFrom(_, _, _)
SplitFrom(s, sep, cur) ==
    IF s = <<>> THEN <<cur>>
    ELSE IF Head(s) = sep THEN <<cur>> \o SplitFrom(Tail(s), sep, <<>>)
    ELSE SplitFrom(Tail(s), sep, Append(cur, Head(s)))

Split(s, sep) == SplitFrom(s, sep, <<>>)

\* int(s) succeeds (the alphabet has no sign or underscore characters)
IsInt(s) == LET t == Strip(s) IN t # <<>> /\ \A i \in 1..Len(t) : t[i] \in Digits

RECURSIVE DecVal(_, _)
DecVal(t, acc) == IF t = <<>> THEN acc ELSE DecVal(Tail(t), 10 * acc + DigitVal(Head(t)))

ToInt(s) == DecVal(Strip(s), 0)

\* Python truthiness of an optional string
Truthy(s) == s # None /\ s # <<>>

-----------------------------------------------------------------------------
(* Utilities, lines 222-260 *)

\* faulty variant: the hour pattern also lets 24 through
valid_hhmm_to24(value) ==
    /\ Len(value) = 5
    /\ \/ value[1] \in {"0", "1"} /\ value[2] \in Digits
       \/ value[1] = "2" /\ value[2] \in {"0", "1", "2", "3", "4"}
    /\ value[3] = ":"
    /\ value[4] \in {"0", "1", "2", "3", "4", "5"}
    /\ value[5] \in Digits

\* lines 222-223: ^(?:[01]\d|2[0-3]):[0-5]\d$
valid_hhmm(value) ==
    /\ Len(value) = 5
    /\ \/ value[1] \in {"0", "1"} /\ value[2] \in Digits
       \/ value[1] = "2" /\ value[2] \in {"0", "1", "2", "3"}
    /\ value[3] = ":"
    /\ value[4] \in {"0", "1", "2", "3", "4", "5"}
    /\ value[5] \in Digits

\* ensure_zoneinfo(tz) returns a zone (TRUE) or raises ValueError (FALSE)
ensure_zoneinfo_ok(tz) == tz \in ValidZones

DayAlias ==
    {<<<<"m","o","n","d","a","y">>, <<"m","o","n">>>>,
     <<<<"t","u","e","s","d","a","y">>, <<"t","u","e">>>>,
     <<<<"w","e","d","n","e","s","d","a","y">>, <<"w","e","d">>>>,
     <<<<"t","h","u","r","s","d","a","y">>, <<"t","h","u">>>>,
     <<<<"f","r","i","d","a","y">>, <<"f","r","i">>>>,
     <<<<"s","a","t","u","r","d","a","y">>, <<"s","a","t">>>>,
     <<<<"s","u","n","d","a","y">>, <<"s","u","n">>>>,
     <<<<"m","o","n">>, <<"m","o","n">>>>,
     <<<<"t","u","e">>, <<"t","u","e">>>>,
     <<<<"w","e","d">>, <<"w","e","d">>>>,
     <<<<"t","h","u">>, <<"t","h","u">>>>,
     <<<<"f","r","i">>, <<"f","r","i">>>>,
     <<<<"s","a","t">>, <<"s","a","t">>>>,
     <<<<"s","u","n">>, <<"s","u","n">>>>}

_norm_dow(d) ==
    IF ~Truthy(d) THEN None
    ELSE LET k == Lower(Strip(d))
             hits == {p \in DayAlias : p[1] = k}
         IN IF hits = {} THEN None ELSE (CHOOSE p \in hits : TRUE)[2]


-----------------------------------------------------------------------------
(* The scheduler (AsyncIOScheduler, line 191) as the code uses it *)

JobId(u) == <<"dm", u>>

JobIds(js) == {js[i].id : i \in DOMAIN js}

\* CronTrigger(hour, minute, timezone[, day_of_week]) accepts its fields
CronTrigger_ok(hour, minute) == hour \in 0..23 /\ minute \in 0..59

\* scheduler.remove_job(job_id) inside try/except: the first job with that id is
\* dropped; JobLookupError (no such job) is swallowed by every caller
RECURSIVE remove_job(_, _)
remove_job(js, id) ==
    IF js = <<>> THEN <<>>
    ELSE IF Head(js).id = id THEN Tail(js)
    ELSE <<Head(js)>> \o remove_job(Tail(js), id)

\* scheduler.add_job(..., id=...) without replace_existing: a stopped scheduler
\* queues the job unchecked, a running one raises ConflictingIdError on a known id
add_job_ok(js, run, id) == ~run \/ id \notin JobIds(js)

\* scheduler.start(): every queued job goes to the job store, which refuses a
\* second job with an id it already holds
start_ok(js) == \A i, j \in DOMAIN js : js[i].id = js[j].id => i = j

-----------------------------------------------------------------------------
(* schedule_for_member, lines 262-287 *)

\* faulty variant: the existing job is not removed before the new one is added
existing_removed_skip(js, uj, u) == js

\* lines 264-269
existing_removed(js, uj, u) ==
    IF u \in DOMAIN uj /\ Truthy(uj[u]) THEN remove_job(js, uj[u]) ELSE js

\* faulty variant: no fallback to the default zone
trigger_zone_nofallback(tz) ==
    IF ensure_zoneinfo_ok(tz) THEN [ok |-> TRUE, zone |-> tz]
    ELSE [ok |-> FALSE, zone |-> tz]

\* lines 272-275: the member's zone, else the default zone, else ValueError
trigger_zone(tz) ==
    IF ensure_zoneinfo_ok(tz) THEN [ok |-> TRUE, zone |-> tz]
    ELSE IF ensure_zoneinfo_ok(DEFAULT_TZ) THEN [ok |-> TRUE, zone |-> DEFAULT_TZ]
    ELSE [ok |-> FALSE, zone |-> tz]

\* line 271: hour, minute = map(int, hhmm.split(":"))
hhmm_parts_ok(hhmm) ==
    LET parts == Split(hhmm, ":")
    IN Len(parts) = 2 /\ IsInt(parts[1]) /\ IsInt(parts[2])

\* lines 278-283: the trigger's day_of_week ("*" when the keyword is not passed)
trigger_dow(cadence, dow) ==
    IF Lower(IF Truthy(cadence) THEN cadence ELSE daily) = weekly
    THEN LET nd == _norm_dow(IF Truthy(dow) THEN dow ELSE <<>>)
         IN IF ~Truthy(nd) THEN <<"m", "o", "n">> ELSE nd
    ELSE <<"*">>

\* the whole call: the scheduler's jobs and the registry afterwards, whether it
\* raised, and whether an earlier job of the identity was removed
schedule_for_member(js, uj, run, u, tz, hhmm, cadence, dow) ==
    LET js1 == existing_removed(js, uj, u)
        replaced == JobId(u) \in JobIds(js)
        failed == [jobs |-> js1, user_jobs |-> uj, raised |-> TRUE, replaced |-> replaced]
    IN IF ~hhmm_parts_ok(hhmm) THEN failed
       ELSE LET parts == Split(hhmm, ":")
                hour == ToInt(parts[1])
                minute == ToInt(parts[2])
                z == trigger_zone(tz)
            IN IF ~z.ok \/ ~CronTrigger_ok(hour, minute) \/ ~add_job_ok(js1, run, JobId(u))
               THEN failed
               ELSE [jobs |-> Append(js1, [id |-> JobId(u), user |-> u, hour |-> hour,
                                           minute |-> minute, tz |-> z.zone,
                                           dow |-> trigger_dow(cadence, dow)]),
                     user_jobs |-> [x \in DOMAIN uj \cup {u} |->
                                       IF x = u THEN JobId(u) ELSE uj[x]],
                     raised |-> FALSE,
                     replaced |-> replaced]

\* lines 104-109: approved members in rowid (user_id) order
RECURSIVE SortedSeq(_)
SortedSeq(S) ==
    IF S = {} THEN <<>>
    ELSE LET m == CHOOSE x \in S : \A y \in S : x <= y
         IN <<m>> \o SortedSeq(S \ {m})

\* faulty variant: the SELECT has no WHERE approved = 1
get_active_members_full_all(ms) == SortedSeq(DOMAIN ms)

get_active_members_full(ms) == SortedSeq({u \in DOMAIN ms : ms[u].approved = 1})

\* lines 307-309: the first call that raises ends the loop
RECURSIVE reschedule_from(_, _, _, _, _)
reschedule_from(js, uj, run, ms, todo) ==
    IF todo = <<>> THEN [jobs |-> js, user_jobs |-> uj, raised |-> FALSE]
    ELSE LET m == ms[Head(todo)]
             r == schedule_for_member(js, uj, run, Head(todo), m.tz, m.hhmm, m.cadence, m.dow)
         IN IF r.raised THEN [jobs |-> r.jobs, user_jobs |-> r.user_jobs, raised |-> TRUE]
            ELSE reschedule_from(r.jobs, r.user_jobs, run, ms, Tail(todo))

reschedule_all(js, uj, run, ms) == reschedule_from(js, uj, run, ms, get_active_members_full(ms))

-----------------------------------------------------------------------------
(* Persistence store, lines 86-171 *)

NoRows == [x \in {} |-> None]

BulletinKey == "bulletin_channel_id"

Row(tz, hhmm, approved, cadence, dow) ==
    [tz |-> tz, hhmm |-> hhmm, approved |-> approved, cadence |-> cadence, dow |-> dow]

\* lines 124-134; a new row takes the column defaults cadence 'daily', dow NULL
upsert_member(ms, u, tz, hhmm, approved) ==
    IF u \in DOMAIN ms
    THEN [ms EXCEPT ![u].tz = tz, ![u].hhmm = hhmm, ![u].approved = approved]
    ELSE [x \in DOMAIN ms \cup {u} |->
             IF x = u THEN Row(tz, hhmm, approved, daily, None) ELSE ms[x]]

\* faulty variant: the UPDATE of set_member_time is never committed
set_member_time_lost(ms, u, hhmm) == ms

\* lines 136-139
set_member_time(ms, u, hhmm) ==
    IF u \in DOMAIN ms THEN [ms EXCEPT ![u].hhmm = hhmm] ELSE ms

\* lines 141-144
set_member_tz(ms, u, tz) ==
    IF u \in DOMAIN ms THEN [ms EXCEPT ![u].tz = tz] ELSE ms

\* lines 86-89
set_member_cadence(ms, u, cadence, dow) ==
    IF u \in DOMAIN ms THEN [ms EXCEPT ![u].cadence = cadence, ![u].dow = dow] ELSE ms

\* lines 146-150
approve_member(ms, u, approved) ==
    IF u \in DOMAIN ms
    THEN [ms EXCEPT ![u].approved = approved]
    ELSE [x \in DOMAIN ms \cup {u} |->
             IF x = u THEN Row(DEFAULT_TZ, T0800, approved, daily, None) ELSE ms[x]]

\* faulty variant: the new row takes the place of the log
add_checkin_overwrite(cs, u, content) == <<[user_id |-> u, content |-> content]>>

\* lines 165-171 (the timestamp column is not modelled)
add_checkin(cs, u, content) == Append(cs, [user_id |-> u, content |-> content])

\* lines 113-116
get_setting(st, key) == IF key \in DOMAIN st THEN st[key] ELSE None

\* lines 118-121
set_setting(st, key, value) == [x \in DOMAIN st \cup {key} |-> IF x = key THEN value ELSE st[x]]

-----------------------------------------------------------------------------
(* What a handler leaves in `last` *)

\* op: the handler; user: the identity it is about; arg: its other inputs;
\* reply: the answer sent ("none" when an exception ended the handler first);
\* replaced: a job of the identity was in the scheduler when the handler began;
\* sends: the messages on_message tried to send, in order
Outcome(op, u, arg, reply, raised, replaced, sends) ==
    [op |-> op, user |-> u, arg |-> arg, reply |-> reply, raised |-> raised,
     replaced |-> replaced, sends |-> sends]

\* a command that answers without touching the schedule
Answer(op, u, arg, reply) == Outcome(op, u, arg, reply, FALSE, FALSE, <<>>)

\* faulty variant: the registry entry of the new job is not written
Scheduled_unregistered(op, u, arg, r) ==
    /\ jobs' = r.jobs
    /\ user_jobs' = user_jobs
    /\ last' = Outcome(op, u, arg, IF r.raised THEN "none" ELSE "ok", r.raised, r.replaced, <<>>)

\* faulty variant: the exception of schedule_for_member is caught and the
\* acknowledgement is sent all the same
Scheduled_swallowed(op, u, arg, r) ==
    /\ jobs' = r.jobs
    /\ user_jobs' = r.user_jobs
    /\ last' = Outcome(op, u, arg, "ok", FALSE, r.replaced, <<>>)

\* a command whose last step before the acknowledgement is schedule_for_member:
\* an exception there leaves the handler before the acknowledgement is sent
Scheduled(op, u, arg, r) ==
    /\ jobs' = r.jobs
    /\ user_jobs' = r.user_jobs
    /\ last' = Outcome(op, u, arg, IF r.raised THEN "none" ELSE "ok", r.raised, r.replaced, <<>>)

-----------------------------------------------------------------------------
(* Initial state and restart: module level, lines 17-22, 174-192 *)

\* values the environment may give BULLETIN_CHANNEL_ID: unset
EnvChannelInputs == {None}

Init ==
    /\ DEFAULT_TZ \in DefaultZones
    /\ BULLETIN_CHANNEL_ID = None
    /\ members = NoRows
    /\ checkins = <<>>
    /\ settings = NoRows
    /\ user_jobs = NoRows
    /\ jobs = <<>>
    /\ running = FALSE
    /\ last = Answer("init", 0, <<>>, "none")
    /\ steps = 0
    /\ trail = <<>>
    /\ inflight = <<>>

\* the process ends and starts again over the same database
Restart ==
    /\ DEFAULT_TZ' \in DefaultZones
    /\ \E env \in EnvChannelInputs :
          BULLETIN_CHANNEL_ID' = IF env = None THEN get_setting(settings, BulletinKey) ELSE env
    /\ user_jobs' = NoRows
    /\ jobs' = <<>>
    /\ running' = FALSE
    /\ last' = Answer("restart", 0, <<>>, "none")
    /\ UNCHANGED <<members, checkins, settings>>

-----------------------------------------------------------------------------
(* Member commands, lines 436-555 *)

\* lines 421, 442, 464, 544: not m or m["approved"] != 1
not_enrolled(ms, u) == u \notin DOMAIN ms \/ ms[u].approved # 1

\* lines 527-537
join(u) ==
    LET tz == IF u \in DOMAIN members THEN members[u].tz ELSE DEFAULT_TZ
        hhmm == IF u \in DOMAIN members THEN members[u].hhmm ELSE T0800
        ms1 == set_member_cadence(upsert_member(members, u, tz, hhmm, 1), u, daily, None)
    IN /\ members' = ms1
       /\ Scheduled("join", u, <<>>, schedule_for_member(jobs, user_jobs, running, u, tz, hhmm, daily, None))
       /\ UNCHANGED <<DEFAULT_TZ, BULLETIN_CHANNEL_ID, checkins, settings, running>>

\* lines 478-496
settime(u, hhmm) ==
    IF ~valid_hhmm(hhmm)
    THEN /\ last' = Answer("settime", u, <<hhmm>>, "bad_time")
         /\ UNCHANGED <<DEFAULT_TZ, BULLETIN_CHANNEL_ID, members, checkins, settings,
                        user_jobs, jobs, running>>
    ELSE LET ms1 == IF u \notin DOMAIN members
                    THEN upsert_member(members, u, DEFAULT_TZ, hhmm, 1)
                    ELSE set_member_time(members, u, hhmm)
             member == ms1[u]
         IN /\ members' = ms1
            /\ Scheduled("settime", u, <<hhmm>>,
                         schedule_for_member(jobs, user_jobs, running, u, member.tz,
                                             member.hhmm, daily, None))
            /\ UNCHANGED <<DEFAULT_TZ, BULLETIN_CHANNEL_ID, checkins, settings, running>>

\* lines 502-523
settimezone(u, tz) ==
    IF ~ensure_zoneinfo_ok(tz)
    THEN /\ last' = Answer("settimezone", u, <<tz>>, "bad_tz")
         /\ UNCHANGED <<DEFAULT_TZ, BULLETIN_CHANNEL_ID, members, checkins, settings,
                        user_jobs, jobs, running>>
    ELSE LET ms1 == IF u \notin DOMAIN members
                    THEN upsert_member(members, u, tz, T0800, 1)
                    ELSE set_member_tz(members, u, tz)
             member == ms1[u]
         IN /\ members' = ms1
            /\ Scheduled("settimezone", u, <<tz>>,
                         schedule_for_member(jobs, user_jobs, running, u, member.tz,
                                             member.hhmm, daily, None))
            /\ UNCHANGED <<DEFAULT_TZ, BULLETIN_CHANNEL_ID, checkins, settings, running>>

\* lines 436-449
setcadence(u, mode) ==
    LET mode_l == Lower(Strip(IF Truthy(mode) THEN mode ELSE <<>>))
    IN IF mode_l \notin {daily, weekly}
       THEN /\ last' = Answer("setcadence", u, <<mode>>, "bad_mode")
            /\ UNCHANGED <<DEFAULT_TZ, BULLETIN_CHANNEL_ID, members, checkins, settings,
                           user_jobs, jobs, running>>
       ELSE IF not_enrolled(members, u)
       THEN /\ last' = Answer("setcadence", u, <<mode>>, "not_enrolled")
            /\ UNCHANGED <<DEFAULT_TZ, BULLETIN_CHANNEL_ID, members, checkins, settings,
                           user_jobs, jobs, running>>
       ELSE LET ms1 == set_member_cadence(members, u, mode_l,
                                          IF mode_l = weekly THEN members[u].dow ELSE None)
                m == ms1[u]
            IN /\ members' = ms1
               /\ Scheduled("setcadence", u, <<mode>>,
                            schedule_for_member(jobs, user_jobs, running, u, m.tz, m.hhmm,
                                                m.cadence, m.dow))
               /\ UNCHANGED <<DEFAULT_TZ, BULLETIN_CHANNEL_ID, checkins, settings, running>>

\* lines 455-472
setweekly(u, day, hhmm) ==
    IF ~valid_hhmm(hhmm)
    THEN /\ last' = Answer("setweekly", u, <<day, hhmm>>, "bad_time")
         /\ UNCHANGED <<DEFAULT_TZ, BULLETIN_CHANNEL_ID, members, checkins, settings,
                        user_jobs, jobs, running>>
    ELSE IF ~Truthy(_norm_dow(day))
    THEN /\ last' = Answer("setweekly", u, <<day, hhmm>>, "bad_day")
         /\ UNCHANGED <<DEFAULT_TZ, BULLETIN_CHANNEL_ID, members, checkins, settings,
                        user_jobs, jobs, running>>
    ELSE IF not_enrolled(members, u)
    THEN /\ last' = Answer("setweekly", u, <<day, hhmm>>, "not_enrolled")
         /\ UNCHANGED <<DEFAULT_TZ, BULLETIN_CHANNEL_ID, members, checkins, settings,
                        user_jobs, jobs, running>>
    ELSE LET ms1 == set_member_cadence(set_member_time(members, u, hhmm), u, weekly,
                                       _norm_dow(day))
             m == ms1[u]
         IN /\ members' = ms1
            /\ Scheduled("setweekly", u, <<day, hhmm>>,
                         schedule_for_member(jobs, user_jobs, running, u, m.tz, m.hhmm,
                                             m.cadence, m.dow))
            /\ UNCHANGED <<DEFAULT_TZ, BULLETIN_CHANNEL_ID, checkins, settings, running>>

\* faulty variant: leave refuses only an identity without a row
leave_refused_absent(ms, u) == u \notin DOMAIN ms

\* line 544
leave_refused(ms, u) == not_enrolled(ms, u)

\* faulty variant: the job is cancelled and the registry entry is left behind
unscheduled_keep_entry(js, uj, u) ==
    IF u \in DOMAIN uj /\ Truthy(uj[u])
    THEN [jobs |-> remove_job(js, uj[u]), user_jobs |-> uj]
    ELSE [jobs |-> js, user_jobs |-> uj]

\* lines 548-554 and 607-613: cancel the registered job and drop the registry entry
unscheduled(js, uj, u) ==
    IF u \in DOMAIN uj /\ Truthy(uj[u])
    THEN [jobs |-> remove_job(js, uj[u]), user_jobs |-> [x \in DOMAIN uj \ {u} |-> uj[x]]]
    ELSE [jobs |-> js, user_jobs |-> uj]

\* lines 542-555
leave(u) ==
    IF leave_refused(members, u)
    THEN /\ last' = Answer("leave", u, <<>>, "not_enrolled")
         /\ UNCHANGED <<DEFAULT_TZ, BULLETIN_CHANNEL_ID, members, checkins, settings,
                        user_jobs, jobs, running>>
    ELSE LET r == unscheduled(jobs, user_jobs, u)
         IN /\ members' = approve_member(members, u, 0)
            /\ jobs' = r.jobs
            /\ user_jobs' = r.user_jobs
            /\ last' = Outcome("leave", u, <<>>, "ok", FALSE, JobId(u) \in JobIds(jobs), <<>>)
            /\ UNCHANGED <<DEFAULT_TZ, BULLETIN_CHANNEL_ID, checkins, settings, running>>

-----------------------------------------------------------------------------
(* Admin commands, lines 563-615; is_admin (lines 198-218) is the input admin *)

Refused(op, u, arg) ==
    /\ last' = Answer(op, u, arg, "no_permission")
    /\ UNCHANGED <<DEFAULT_TZ, BULLETIN_CHANNEL_ID, members, checkins, settings,
                   user_jobs, jobs, running>>

\* lines 563-572
setbulletin(admin, channel) ==
    IF ~admin THEN Refused("setbulletin", 0, <<admin, channel>>)
    ELSE /\ settings' = set_setting(settings, BulletinKey, channel)
         /\ BULLETIN_CHANNEL_ID' = channel
         /\ last' = Answer("setbulletin", 0, <<admin, channel>>, "ok")
         /\ UNCHANGED <<DEFAULT_TZ, members, checkins, user_jobs, jobs, running>>

\* lines 578-595; the notice to the approved user is best effort
approve(admin, u) ==
    IF ~admin THEN Refused("approve", u, <<admin>>)
    ELSE LET ms1 == approve_member(members, u, 1)
             m == ms1[u]
         IN /\ members' = ms1
            /\ Scheduled("approve", u, <<admin>>,
                         schedule_for_member(jobs, user_jobs, running, u, m.tz, m.hhmm,
                                             daily, None))
            /\ UNCHANGED <<DEFAULT_TZ, BULLETIN_CHANNEL_ID, checkins, settings, running>>

\* faulty variant: revoke clears the approved flag and leaves the job alone
revoke_unscheduled_keep(js, uj, u) == [jobs |-> js, user_jobs |-> uj]

\* lines 606-613
revoke_unscheduled(js, uj, u) == unscheduled(js, uj, u)

\* faulty variant: revoke without the is_admin check of lines 602-604
revoke_unchecked(admin, u) ==
    LET r == revoke_unscheduled(jobs, user_jobs, u)
    IN /\ members' = approve_member(members, u, 0)
       /\ jobs' = r.jobs
       /\ user_jobs' = r.user_jobs
       /\ last' = Outcome("revoke", u, <<admin>>, "ok", FALSE, JobId(u) \in JobIds(jobs), <<>>)
       /\ UNCHANGED <<DEFAULT_TZ, BULLETIN_CHANNEL_ID, checkins, settings, running>>

\* lines 601-615
revoke(admin, u) ==
    IF ~admin THEN Refused("revoke", u, <<admin>>)
    ELSE LET r == revoke_unscheduled(jobs, user_jobs, u)
         IN /\ members' = approve_member(members, u, 0)
            /\ jobs' = r.jobs
            /\ user_jobs' = r.user_jobs
            /\ last' = Outcome("revoke", u, <<admin>>, "ok", FALSE, JobId(u) \in JobIds(jobs), <<>>)
            /\ UNCHANGED <<DEFAULT_TZ, BULLETIN_CHANNEL_ID, checkins, settings, running>>

-----------------------------------------------------------------------------
(* Ready event, lines 316-336 (the command syncs change no state) *)

on_ready ==
    IF running
    THEN /\ last' = Answer("on_ready", 0, <<>>, "skipped")
         /\ UNCHANGED <<DEFAULT_TZ, BULLETIN_CHANNEL_ID, members, checkins, settings,
                        user_jobs, jobs, running>>
    ELSE IF ~start_ok(jobs)
    THEN /\ last' = Outcome("on_ready", 0, <<>>, "none", TRUE, FALSE, <<>>)
         /\ UNCHANGED <<DEFAULT_TZ, BULLETIN_CHANNEL_ID, members, checkins, settings,
                        user_jobs, jobs, running>>
    ELSE LET r == reschedule_all(jobs, user_jobs, TRUE, members)
         IN /\ running' = TRUE
            /\ jobs' = r.jobs
            /\ user_jobs' = r.user_jobs
            /\ last' = Outcome("on_ready", 0, <<>>, IF r.raised THEN "none" ELSE "started",
                               r.raised, FALSE, <<>>)
            /\ UNCHANGED <<DEFAULT_TZ, BULLETIN_CHANNEL_ID, members, checkins, settings>>

-----------------------------------------------------------------------------
(* Check-in relay, lines 233-249 and 340-398 *)

\* lines 233-249: the cache after the call and whether a text channel came back;
\* visible is the answer of bot.get_channel for the cached id
get_bulletin_channel(cache, st, visible) ==
    LET val == get_setting(st, BulletinKey)
        cache1 == IF ~Truthy(cache) /\ Truthy(val) THEN val ELSE cache
    IN [cache |-> cache1,
        channel |-> Truthy(cache1) /\ IsInt(cache1) /\ visible]

Sent(what, ok) == [what |-> what, ok |-> ok]

\* faulty variant: only an identity without a row is turned away
dm_rejected_absent(ms, u) == u \notin DOMAIN ms

\* line 348
dm_rejected(ms, u) == not_enrolled(ms, u)

\* faulty variant: a failed publish is tried once more
relay_sends_retry(pub_ok, ack_ok, dm_ok) ==
    IF ~pub_ok THEN <<Sent("publish", FALSE), Sent("publish", FALSE), Sent("failed", dm_ok)>>
    ELSE IF ack_ok /\ dm_ok THEN <<Sent("publish", TRUE), Sent("posted", TRUE)>>
    ELSE <<Sent("publish", TRUE), Sent("posted", FALSE), Sent("failed", dm_ok)>>

\* faulty variant: the except branch passes without telling the sender
relay_sends_silent(pub_ok, ack_ok, dm_ok) ==
    IF ~pub_ok THEN <<Sent("publish", FALSE)>>
    ELSE IF ack_ok /\ dm_ok THEN <<Sent("publish", TRUE), Sent("posted", TRUE)>>
    ELSE <<Sent("publish", TRUE), Sent("posted", FALSE)>>

\* lines 387-394: the publish, the acknowledgement after it, and the failure
\* notice of the except branch, which catches the discord.HTTPException of
\* either send (discord.Forbidden is a discord.HTTPException)
relay_sends(pub_ok, ack_ok, dm_ok) ==
    IF ~pub_ok THEN <<Sent("publish", FALSE), Sent("failed", dm_ok)>>
    ELSE IF ack_ok /\ dm_ok THEN <<Sent("publish", TRUE), Sent("posted", TRUE)>>
    ELSE <<Sent("publish", TRUE), Sent("posted", FALSE), Sent("failed", dm_ok)>>

\* faulty variant: the row is not written
stored_checkin_lost(cs, u, content) == cs

\* line 363
stored_checkin(cs, u, content) == add_checkin(cs, u, content)

\* author_bot: message.author.bot; is_dm: the channel is a DMChannel; visible: the
\* bulletin channel is in the channel cache; pub_ok: channel.send succeeds;
\* dm_ok: the sender accepts direct messages (else discord.Forbidden);
\* ack_ok: the acknowledgement after the publish meets no other
\* discord.HTTPException
on_message(u, text, author_bot, is_dm, visible, pub_ok, dm_ok, ack_ok) ==
    LET arg == <<text, author_bot, is_dm, visible, pub_ok, dm_ok, ack_ok>>
        content == Strip(IF Truthy(text) THEN text ELSE <<>>)
        ch == get_bulletin_channel(BULLETIN_CHANNEL_ID, settings, visible)
        quiet(reply, sends) ==
            /\ last' = Outcome("on_message", u, arg, reply, FALSE, FALSE, sends)
            /\ UNCHANGED <<DEFAULT_TZ, BULLETIN_CHANNEL_ID, members, checkins, settings,
                           user_jobs, jobs, running>>
    IN IF author_bot THEN quiet("ignored", <<>>)
       ELSE IF ~is_dm THEN quiet("process_commands", <<>>)
       ELSE IF dm_rejected(members, u) THEN quiet("hint", <<Sent("hint", dm_ok)>>)
       ELSE IF content = <<>> THEN quiet("empty", <<>>)
       ELSE /\ Len(checkins) < MaxCheckins
            /\ checkins' = stored_checkin(checkins, u, content)
            /\ BULLETIN_CHANNEL_ID' = ch.cache
            /\ UNCHANGED <<DEFAULT_TZ, members, settings, user_jobs, jobs, running>>
            /\ IF ~ch.channel
               THEN last' = Outcome("on_message", u, arg, "recorded", FALSE, FALSE,
                                    <<Sent("recorded", dm_ok)>>)
               ELSE IF ~ensure_zoneinfo_ok(members[u].tz)
               THEN \* line 378: ZoneInfo(member["tz"]) raises before the publish
                    last' = Outcome("on_message", u, arg, "none", TRUE, FALSE, <<>>)
               ELSE last' = Outcome("on_message", u, arg,
                                    IF pub_ok /\ ack_ok /\ dm_ok THEN "posted" ELSE "failed",
                                    FALSE, FALSE, relay_sends(pub_ok, ack_ok, dm_ok))

-----------------------------------------------------------------------------
(* Trigger fire, lines 290-304 *)

\* faulty variant: a recipient that cannot be fetched is an error of the job
prompt_delivery_strict(resolved, delivery) ==
    IF resolved = "unresolved"
    THEN [reply |-> "none", raised |-> TRUE, sends |-> <<>>]
    ELSE IF delivery = "sent"
    THEN [reply |-> "prompted", raised |-> FALSE, sends |-> <<Sent("prompt", TRUE)>>]
    ELSE IF delivery = "forbidden"
    THEN [reply |-> "refused", raised |-> FALSE, sends |-> <<Sent("prompt", FALSE)>>]
    ELSE [reply |-> "none", raised |-> TRUE, sends |-> <<Sent("prompt", FALSE)>>]

\* resolved: "cached" (bot.get_user finds the user), "fetched" (bot.fetch_user
\* does) or "unresolved" (fetch_user raises discord.HTTPException);
\* delivery: "sent", "forbidden" (user.send raises discord.Forbidden) or "error"
\* (user.send raises another discord.HTTPException, which is not caught)
prompt_delivery(resolved, delivery) ==
    IF resolved = "unresolved"
    THEN [reply |-> "unresolved", raised |-> FALSE, sends |-> <<>>]
    ELSE IF delivery = "sent"
    THEN [reply |-> "prompted", raised |-> FALSE, sends |-> <<Sent("prompt", TRUE)>>]
    ELSE IF delivery = "forbidden"
    THEN [reply |-> "refused", raised |-> FALSE, sends |-> <<Sent("prompt", FALSE)>>]
    ELSE [reply |-> "none", raised |-> TRUE, sends |-> <<Sent("prompt", FALSE)>>]

\* the running scheduler fires the job of identity u
send_daily_prompt_to_user(u, resolved, delivery) ==
    LET r == prompt_delivery(resolved, delivery)
    IN /\ running
       /\ \E i \in DOMAIN jobs : jobs[i].user = u
       /\ last' = Outcome("send_daily_prompt_to_user", u, <<resolved, delivery>>, r.reply,
                          r.raised, FALSE, r.sends)
       /\ UNCHANGED <<DEFAULT_TZ, BULLETIN_CHANNEL_ID, members, checkins, settings,
                      user_jobs, jobs, running>>

-----------------------------------------------------------------------------
(* Specification *)

\* how a fire may go: resolved, delivery
FireInputs ==
    {<<"cached", "sent">>, <<"unresolved", "sent">>, <<"cached", "forbidden">>,
     <<"fetched", "error">>}

\* the messages that arrive: text, author_bot, is_dm, visible, pub_ok, dm_ok,
\* ack_ok
MessageInputs ==
    {<<t, TRUE, TRUE, FALSE, FALSE, FALSE, TRUE>> : t \in ContentInputs}
    \cup {<<t, FALSE, FALSE, FALSE, FALSE, FALSE, TRUE>> : t \in ContentInputs}
    \cup {<<<<" ">>, FALSE, TRUE, FALSE, FALSE, d, TRUE>> : d \in BOOLEAN}
    \cup {<<<<" ", "o", "k", " ">>, FALSE, TRUE, FALSE, FALSE, d, TRUE>> : d \in BOOLEAN}
    \cup {<<<<" ", "o", "k", " ">>, FALSE, TRUE, TRUE, p, d, TRUE>> : p, d \in BOOLEAN}
    \cup {<<<<" ", "o", "k", " ">>, FALSE, TRUE, TRUE, TRUE, TRUE, FALSE>>}

\* one more handler runs, up to the bound
Tick == steps < MaxSteps /\ steps' = steps + 1 /\ trail' = trail /\ inflight' = inflight

Next ==
    \/ \E u \in Users : Tick /\ join(u)
    \/ \E u \in Users : Tick /\ leave(u)
    \/ \E u \in Users, hhmm \in TimeInputs : Tick /\ settime(u, hhmm)
    \/ \E u \in Users, tz \in ZoneInputs : Tick /\ settimezone(u, tz)
    \/ \E u \in Users, mode \in ModeInputs : Tick /\ setcadence(u, mode)
    \/ \E u \in Users, day \in DayInputs, hhmm \in TimeInputs : Tick /\ setweekly(u, day, hhmm)
    \/ \E admin \in BOOLEAN, channel \in ChannelInputs : Tick /\ setbulletin(admin, channel)
    \/ \E admin \in BOOLEAN, u \in Users : Tick /\ approve(admin, u)
    \/ \E admin \in BOOLEAN, u \in Users : Tick /\ revoke(admin, u)
    \/ \E u \in Users, m \in MessageInputs :
          Tick /\ on_message(u, m[1], m[2], m[3], m[4], m[5], m[6], m[7])
    \/ \E u \in Users, f \in FireInputs : Tick /\ send_daily_prompt_to_user(u, f[1], f[2])
    \/ Tick /\ on_ready
    \/ Tick /\ Restart

Spec == Init /\ [][Next]_vars

\* another handler may run
More == steps < MaxSteps

\* the handler that has just run is counted and written to the trail
Logged ==
    /\ steps' = steps + 1
    /\ trail' = Append(trail, [op |-> last'.op, user |-> last'.user, arg |-> last'.arg])
    /\ inflight' = inflight

\* enrolment and the two settings commands of every user, around the ready
\* event, with the order of the handlers kept
NextEndToEnd ==
    \/ \E u \in Users : More /\ join(u) /\ Logged
    \/ \E u \in Users, tz \in ZoneInputs : More /\ settimezone(u, tz) /\ Logged
    \/ \E u \in Users, hhmm \in TimeInputs : More /\ settime(u, hhmm) /\ Logged
    \/ More /\ on_ready /\ Logged

SpecEndToEnd == Init /\ [][NextEndToEnd]_vars

\* the commands that end in schedule_for_member
ScheduleCommands == {"join", "settime", "settimezone", "setcadence", "setweekly", "approve"}

\* two handlers may be suspended at a time
MaxInflight == 2

\* a command has run up to the await of its reply (lines 449, 472, 496, 523,
\* 534, 595) and waits there, unless an exception ended it; paired: it and the
\* other suspended command are accepted schedule commands of one identity, and
\* no command has begun since
Suspended ==
    LET e == [op |-> last'.op, user |-> last'.user, reply |-> last'.reply, paired |-> FALSE]
        accepted(x) == x.op \in ScheduleCommands /\ x.reply = "ok"
    IN /\ steps' = steps + 1
       /\ trail' = trail
       /\ inflight' =
             LET alone == [i \in DOMAIN inflight |-> [inflight[i] EXCEPT !.paired = FALSE]]
             IN IF last'.raised THEN alone
                ELSE IF Len(inflight) = 1 /\ inflight[1].user = e.user
                        /\ accepted(inflight[1]) /\ accepted(e)
                THEN <<[inflight[1] EXCEPT !.paired = TRUE], [e EXCEPT !.paired = TRUE]>>
                ELSE Append(alone, e)

\* a command may begin while fewer than MaxInflight are suspended
Room == steps < MaxSteps /\ Len(inflight) < MaxInflight

\* the reply of the suspended command i is sent and its handler returns
Resume(i) ==
    LET e == inflight[i]
    IN /\ inflight' = SubSeq(inflight, 1, i - 1) \o SubSeq(inflight, i + 1, Len(inflight))
       /\ last' = Outcome("resume", e.user, <<e.op, e.paired /\ Len(inflight) = 1>>, e.reply,
                          FALSE, FALSE, <<>>)
       /\ UNCHANGED <<DEFAULT_TZ, BULLETIN_CHANNEL_ID, members, checkins, settings,
                      user_jobs, jobs, running, steps, trail>>

\* the ready event runs without a suspension between its database reads and its
\* scheduler calls
Event == steps < MaxSteps /\ steps' = steps + 1 /\ trail' = trail /\ inflight' = inflight

\* the process ends: the suspended handlers end with it
Killed == steps < MaxSteps /\ steps' = steps + 1 /\ trail' = trail /\ inflight' = <<>>

\* the identity whose commands overlap; the other identities only enrol
Racers == {1}

\* the schedule-affecting commands of one identity with inputs their
\* validation accepts, suspended at the await of their reply and resumed in
\* any order, beside the enrolment of the others
NextConcurrent ==
    \/ \E u \in Users : Room /\ join(u) /\ Suspended
    \/ \E u \in Racers, hhmm \in TimeInputs \ InvalidTimes :
          Room /\ settime(u, hhmm) /\ Suspended
    \/ \E u \in Racers, tz \in ZoneInputs \cap ValidZones :
          Room /\ settimezone(u, tz) /\ Suspended
    \/ \E u \in Racers, mode \in ModeInputs \ InvalidModes :
          Room /\ setcadence(u, mode) /\ Suspended
    \/ \E u \in Racers, day \in DayInputs \ InvalidDays, hhmm \in TimeInputs \ InvalidTimes :
          Room /\ setweekly(u, day, hhmm) /\ Suspended
    \/ \E u \in Racers : Room /\ approve(TRUE, u) /\ Suspended
    \/ \E i \in DOMAIN inflight : Resume(i)
    \/ Event /\ on_ready
    \/ Killed /\ Restart

SpecConcurrent == Init /\ [][NextConcurrent]_vars

-----------------------------------------------------------------------------
(* Properties *)

\* the live triggers of an identity in a job list
TriggersIn(js, u) == {i \in DOMAIN js : js[i].user = u}

Triggers(u) == TriggersIn(jobs, u)

Approved(ms, u) == u \in DOMAIN ms /\ ms[u].approved = 1

\* the last handler was a schedule-affecting command that ran to its acknowledgement
ScheduleCommandDone == last.op \in ScheduleCommands /\ last.reply = "ok"

\* C1: every identity has at most one live trigger, and a schedule-affecting
\* command that completes leaves the identity with exactly one (an earlier
\* trigger is superseded, not kept beside the new one).
C1_AtMostOneTrigger ==
    \A u \in Users :
       /\ Cardinality(Triggers(u)) <= 1
       /\ (ScheduleCommandDone /\ last.user = u) => Cardinality(Triggers(u)) = 1

\* C1 witness: a command rescheduled an identity that already had a trigger.
C1_Witness ==
    /\ ScheduleCommandDone
    /\ last.replaced
    /\ Cardinality(Triggers(last.user)) = 1

\* C2: an identity with a live trigger or a registry entry is an approved member.
C2_TriggerOnlyIfApproved ==
    \A u \in Users :
       (Triggers(u) # {} \/ u \in DOMAIN user_jobs) => Approved(members, u)

\* the trigger the stored fields of a row describe: the stored time, the stored
\* zone (the default zone when the stored one does not resolve), every day for a
\* daily member, the stored day (Monday when none is usable) for a weekly one
StoredTrigger(row) ==
    [hour |-> ToInt(SubSeq(row.hhmm, 1, 2)),
     minute |-> ToInt(SubSeq(row.hhmm, 4, 5)),
     tz |-> IF row.tz \in ValidZones THEN row.tz ELSE DEFAULT_TZ,
     dow |-> IF row.cadence = weekly
             THEN (IF Truthy(_norm_dow(row.dow)) THEN _norm_dow(row.dow) ELSE <<"m", "o", "n">>)
             ELSE <<"*">>]

TriggerFields(j) == [hour |-> j.hour, minute |-> j.minute, tz |-> j.tz, dow |-> j.dow]

\* C3: after a schedule-affecting command completes, the member's trigger is the
\* one its stored fields describe.
C3_TriggerFromStoredFields ==
    ScheduleCommandDone =>
       \A i \in Triggers(last.user) : TriggerFields(jobs[i]) = StoredTrigger(members[last.user])

\* a publish to the bulletin channel is among the sends of the last handler
PublishAttempted(l) == \E i \in DOMAIN l.sends : l.sends[i].what = "publish"

NoticeSent(l, what) == \E i \in DOMAIN l.sends : l.sends[i].what = what

\* the last handler was on_message for a direct message of a human author
DirectMessage(l) == l.op = "on_message" /\ ~l.arg[2] /\ l.arg[3]

\* C4: a direct message from an identity that is not an approved member appends
\* no check-in row and causes no publish attempt.
C4_UnapprovedNeverRelayed ==
    [][(DirectMessage(last') /\ ~Approved(members, last'.user))
          => (checkins' = checkins /\ ~PublishAttempted(last'))]_vars

\* C4 witness: a member who left, with a bulletin channel configured, wrote a
\* non-empty direct message and got the enrollment hint.
C4_Witness ==
    /\ DirectMessage(last)
    /\ Strip(last.arg[1]) # <<>>
    /\ last.user \in DOMAIN members
    /\ members[last.user].approved = 0
    /\ Truthy(BULLETIN_CHANNEL_ID)
    /\ last.reply = "hint"

\* no bulletin channel id is cached or stored
NoBulletinChannel == ~Truthy(BULLETIN_CHANNEL_ID) /\ ~Truthy(get_setting(settings, BulletinKey))

\* C5: a non-empty direct message from an approved member while no bulletin
\* channel is cached or stored appends exactly one row, attempts no publish,
\* sends the "recorded but not posted" notice and nothing else.
C5_RecordedNotPosted ==
    [][(/\ DirectMessage(last')
        /\ Approved(members, last'.user)
        /\ Strip(last'.arg[1]) # <<>>
        /\ NoBulletinChannel)
          => (/\ checkins' = Append(checkins, [user_id |-> last'.user,
                                               content |-> Strip(last'.arg[1])])
              /\ ~PublishAttempted(last')
              /\ Len(last'.sends) = 1
              /\ last'.sends[1].what = "recorded"
              /\ ~last'.raised)]_vars

\* C5 witness: such a message was handled.
C5_Witness ==
    /\ DirectMessage(last)
    /\ Approved(members, last.user)
    /\ NoBulletinChannel
    /\ last.reply = "recorded"
    /\ Len(checkins) = 1

\* the publish of the last handler failed
PublishFailed(l) ==
    \E i \in DOMAIN l.sends : l.sends[i].what = "publish" /\ ~l.sends[i].ok

\* C6: when the publish fails, the row appended for the message stays in the log
\* and the failure notice is sent to the sender.
C6_RelayFailureKeepsRow ==
    [][(last'.op = "on_message" /\ PublishFailed(last'))
          => (/\ checkins' = Append(checkins, [user_id |-> last'.user,
                                               content |-> Strip(last'.arg[1])])
              /\ NoticeSent(last', "failed"))]_vars

\* C6 witness: a publish failed.
C6_Witness ==
    /\ last.op = "on_message"
    /\ PublishFailed(last)
    /\ checkins # <<>>

\* C7: after revoke by a privileged caller the identity has no trigger and no
\* registry entry, is not approved, and the check-in log is as it was.
C7_RevokeUnschedulesKeepsHistory ==
    [][(last'.op = "revoke" /\ last'.arg[1])
          => (/\ TriggersIn(jobs', last'.user) = {}
              /\ last'.user \notin DOMAIN user_jobs'
              /\ last'.user \in DOMAIN members'
              /\ members'[last'.user].approved = 0
              /\ checkins' = checkins)]_vars

\* C7 witness: a member with a trigger and a check-in on record was revoked.
C7_Witness ==
    /\ last.op = "revoke"
    /\ last.arg[1]
    /\ last.replaced
    /\ \E i \in DOMAIN checkins : checkins[i].user_id = last.user

\* C8: leave by an identity that is not enrolled changes neither the member
\* store, the check-in log, the settings nor the triggers and their registry,
\* and answers "not enrolled" without raising.
C8_LeaveIdempotent ==
    [][(last'.op = "leave" /\ ~Approved(members, last'.user))
          => (/\ UNCHANGED <<members, checkins, settings, user_jobs, jobs>>
              /\ last'.reply = "not_enrolled"
              /\ ~last'.raised)]_vars

\* C8 witness: a member who had left called leave again.
C8_Witness ==
    /\ last.op = "leave"
    /\ last.reply = "not_enrolled"
    /\ last.user \in DOMAIN members

\* the startup pass ran in the last handler
StartupPassRan == last.op = "on_ready" /\ last.reply # "skipped"

\* schedule_for_member succeeds for the member's stored fields taken alone
SchedulableAlone(u) ==
    ~schedule_for_member(<<>>, NoRows, TRUE, u, members[u].tz, members[u].hhmm,
                         members[u].cadence, members[u].dow).raised

\* C9: after the startup pass every approved member whose own schedule call
\* succeeds has a trigger, whichever other member's call failed.
C9_RescheduleAllTolerant ==
    StartupPassRan =>
       \A u \in Users :
          (Approved(members, u) /\ SchedulableAlone(u)) => Cardinality(Triggers(u)) = 1

StoredZoneInvalid(u) == Approved(members, u) /\ members[u].tz \notin ValidZones

\* after the pass every approved member has one trigger, and a member whose
\* stored zone does not resolve has it in the default zone
PassScheduledEveryone ==
    \A u \in Users :
       Approved(members, u) =>
          /\ Cardinality(Triggers(u)) = 1
          /\ StoredZoneInvalid(u) => \A i \in Triggers(u) : jobs[i].tz = DEFAULT_TZ

Stores == <<members, checkins, settings, user_jobs, jobs, running, BULLETIN_CHANNEL_ID>>

\* the handler l is a command called with an input its validation refuses
InvalidInput(l) ==
    \/ l.op = "settime" /\ l.arg[1] \in InvalidTimes
    \/ l.op = "setweekly" /\ (l.arg[2] \in InvalidTimes \/ l.arg[1] \in InvalidDays)
    \/ l.op = "settimezone" /\ l.arg[1] \notin ValidZones
    \/ l.op = "setcadence" /\ l.arg[1] \in InvalidModes

\* C11: a command called with an invalid time, zone, mode or day is answered
\* with the validation error and changes nothing: members, check-ins,
\* settings, registry and jobs are the same after as before, whatever the
\* caller's row was.
C11_RejectedCommandChangesNothing ==
    [][InvalidInput(last') =>
          /\ last'.reply \in {"bad_time", "bad_tz", "bad_mode", "bad_day"}
          /\ UNCHANGED Stores]_vars

\* a stored, approved member with a trigger has just been refused a time
C11_Witness ==
    /\ last.op = "settime" /\ last.reply = "bad_time"
    /\ Approved(members, last.user)
    /\ Triggers(last.user) # {}

AdminCommands == {"setbulletin", "approve", "revoke"}

\* C12: an admin command (setbulletin, approve, revoke) from a caller who
\* fails the privilege check is answered with the refusal and changes nothing:
\* settings, cached bulletin channel, approved flags, registry and jobs stay.
C12_UnprivilegedAdminCommandChangesNothing ==
    [][(last'.op \in AdminCommands /\ ~last'.arg[1]) =>
          /\ last'.reply = "no_permission"
          /\ UNCHANGED Stores]_vars

\* an unprivileged caller has just tried to revoke an approved member that
\* has a trigger
C12_Witness ==
    /\ last.op = "revoke" /\ ~last.arg[1] /\ last.reply = "no_permission"
    /\ Approved(members, last.user)
    /\ Triggers(last.user) # {}

\* C13: every stored member has a day of week exactly when its cadence is
\* weekly: a daily member has none, a weekly member has one.
C13_DayOfWeekIffWeekly ==
    \A u \in DOMAIN members :
       Truthy(members[u].dow) <=> members[u].cadence = weekly

\* the handlers run for identity u, in order
OwnTrail(u) == SelectSeq(trail, LAMBDA e : e.user = u)

\* identity u, unknown before, has run join, settimezone(z), settime(t) and
\* nothing else
EnrolledAndConfigured(u, z, t) ==
    OwnTrail(u) = <<[op |-> "join", user |-> u, arg |-> <<>>],
                    [op |-> "settimezone", user |-> u, arg |-> <<z>>],
                    [op |-> "settime", user |-> u, arg |-> <<t>>]>>

\* C14: for an identity with no row, join; settimezone(z); settime(t) with a
\* valid zone z and a valid time t ends with the member approved, in zone z, at
\* time t, daily, and exactly one trigger of the identity: daily at t in z.
C14_EnrolSetZoneSetTime ==
    \A u \in Users, z \in ValidZones, t \in TimeInputs \ InvalidTimes :
       EnrolledAndConfigured(u, z, t) =>
          /\ Approved(members, u)
          /\ members[u].tz = z /\ members[u].hhmm = t
          /\ members[u].cadence = daily
          /\ Cardinality(Triggers(u)) = 1
          /\ \A i \in Triggers(u) :
                TriggerFields(jobs[i]) =
                   [hour |-> ToInt(SubSeq(t, 1, 2)), minute |-> ToInt(SubSeq(t, 4, 5)),
                    tz |-> z, dow |-> <<"*">>]

\* the three commands have run for an identity while the other identity
\* enrolled in between
C14_Witness ==
    \E u \in Users :
       /\ EnrolledAndConfigured(u, "Europe/London", T2105)
       /\ Len(trail) = 4
       /\ last.op = "settime" /\ last.user = u /\ last.reply = "ok"

\* both of two overlapping accepted schedule commands of one identity have
\* just resumed and returned
BothFinished == last.op = "resume" /\ last.arg[2]

Rejections == {"bad_time", "bad_tz", "bad_mode", "bad_day", "not_enrolled", "no_permission"}

\* the last handler was a schedule-affecting command that passed its checks
\* and whose call of schedule_for_member installed no trigger
InstallFailed ==
    /\ last.op \in ScheduleCommands
    /\ last.reply \notin Rejections
    /\ Triggers(last.user) = {}

\* C16: when schedule_for_member fails to install the trigger, the calling
\* command ends with the error and sends no success acknowledgement: a row
\* saved without a trigger is never reported as success.
C16_InstallFailurePropagates ==
    InstallFailed => last.raised /\ last.reply = "none"

\* settime has stored the new time and failed to schedule it
C16_Witness ==
    /\ last.op = "settime" /\ last.raised
    /\ members[last.user].hhmm = last.arg[1]
    /\ Triggers(last.user) = {}

\* C17: the check-in log only grows at its end: no handler changes or removes
\* a row, and the only step that adds one is a non-empty direct message from
\* an approved member, which appends one row with the trimmed content.
C17_CheckinLogAppendOnly ==
    [][\/ checkins' = checkins
       \/ /\ DirectMessage(last')
          /\ Approved(members, last'.user)
          /\ Strip(last'.arg[1]) # <<>>
          /\ checkins' = Append(checkins, [user_id |-> last'.user,
                                           content |-> Strip(last'.arg[1])])]_vars

\* a member has checked in and then left: the row is still in the log
C17_Witness ==
    /\ last.op = "leave" /\ last.reply = "ok"
    /\ checkins # <<>>
    /\ checkins[1] = [user_id |-> last.user, content |-> <<"o", "k">>]

\* nothing is registered or scheduled and the scheduler has not been started
FreshProcess == jobs = <<>> /\ user_jobs = NoRows /\ ~running

\* every stored zone resolves and every stored time is a 24-hour HH:MM time
WellFormed(ms) ==
    \A u \in DOMAIN ms : ms[u].tz \in ValidZones /\ valid_hhmm(ms[u].hhmm)

\* C18: the ready event of a fresh process over well-formed rows completes its
\* reschedule_all pass and leaves every approved member with exactly one
\* trigger, the one its stored zone, time, cadence and day describe, and no
\* unapproved member with a trigger; a ready event of a process whose scheduler
\* runs already does not run the pass and changes no trigger.
C18_StartupPass ==
    [][last'.op = "on_ready" =>
          /\ (FreshProcess /\ WellFormed(members)) =>
                /\ last'.reply = "started"
                /\ \A u \in Users :
                      IF Approved(members, u)
                      THEN /\ Cardinality(TriggersIn(jobs', u)) = 1
                           /\ \A i \in TriggersIn(jobs', u) :
                                 TriggerFields(jobs'[i]) = StoredTrigger(members[u])
                      ELSE TriggersIn(jobs', u) = {}
          /\ running => last'.reply = "skipped" /\ UNCHANGED Stores]_vars

\* the pass has run over a weekly approved member
C18_Witness ==
    /\ last.op = "on_ready" /\ last.reply = "started"
    /\ WellFormed(members)
    /\ \E u \in Users :
          /\ Approved(members, u) /\ members[u].cadence = weekly
          /\ \E i \in Triggers(u) : jobs[i].dow = <<"f", "r", "i">>

\* the publish attempts among the sends of handler l
Publishes(l) == {i \in DOMAIN l.sends : l.sends[i].what = "publish"}

\* C19: a message is filtered, then stored, then relayed: its handler attempts
\* a publish only when it has appended the row of that message, the publish is
\* the first thing it sends, and one message appends at most one row and is
\* published at most once.
C19_StoredThenRelayedOnce ==
    [][last'.op = "on_message" =>
          /\ Publishes(last') # {} =>
                /\ DirectMessage(last')
                /\ checkins' = Append(checkins, [user_id |-> last'.user,
                                                 content |-> Strip(last'.arg[1])])
                /\ 1 \in Publishes(last')
          /\ Len(checkins') <= Len(checkins) + 1
          /\ Cardinality(Publishes(last')) <= 1]_vars

\* a message has been stored and its publish has failed
C19_Witness ==
    /\ last.op = "on_message" /\ last.reply = "failed"
    /\ Publishes(last) = {1} /\ ~last.sends[1].ok
    /\ checkins # <<>>
    /\ checkins[Len(checkins)] = [user_id |-> last.user, content |-> Strip(last.arg[1])]

\* handler l is a trigger fire whose prompt does not reach the member: the
\* recipient cannot be resolved, or refuses direct messages
Undeliverable(l) ==
    /\ l.op = "send_daily_prompt_to_user"
    /\ l.arg[1] = "unresolved" \/ l.arg[2] = "forbidden"

\* C20: a trigger fire whose prompt cannot be delivered raises nothing, sends
\* nothing a second time and changes nothing: the member's row, the check-in
\* log, the trigger and its registry entry stay for the next fire.
C20_UndeliverablePromptIsNoOp ==
    [][Undeliverable(last') =>
          /\ ~last'.raised
          /\ Len(last'.sends) <= 1
          /\ UNCHANGED Stores]_vars

\* the job of a member has fired and the member could not be resolved
C20_Witness ==
    /\ Undeliverable(last) /\ last.arg[1] = "unresolved"
    /\ Triggers(last.user) # {}
    /\ last.user \in DOMAIN user_jobs

C22_FailureNoticeOnlyAfterFailedPublish ==
    (last.op = "on_message" /\ NoticeSent(last, "failed")) => PublishFailed(last)

=============================================================================
